---- MODULE Spec2Model ----
(***************************************************************************)
(* Batch ingestion of per-ticker Stooq files into the keyed store          *)
(* assets.h5 (data/create_stooq_data.ipynb): get_stooq_prices_and_tickers, *)
(* the store loop cell that calls it for every (market, asset class) pair, *)
(* and the cells that put a table into the store in a `with pd.HDFStore`   *)
(* block.                                                                  *)
(***************************************************************************)
EXTENDS Integers, Sequences, FiniteSets, TLC

(***************************************************************************)
(* Bounds of the model.                                                    *)
(***************************************************************************)
\* largest number of *.txt files under one asset-class directory
MaxFiles == 2

\* largest number of puts that fail with an I/O error in one run
MaxFaults == 1

\* largest number of names in a downloaded archive
MaxNames == 2

\* largest number of rows the exchange downloads give
MaxRows == 2

(***************************************************************************)
(* Input data: rows, files, directories.                                   *)
(***************************************************************************)
\* tickers in ascending (lexicographic) order
TickerList == <<"A.US", "B.US">>

TickerRank(t) == CHOOSE k \in 1..Len(TickerList) : TickerList[k] = t

\* text of a cell that read_csv and to_numeric take for a number
NumericText == {"9", "10", "11", "12", "500"}

NaN == "NaN"

\* quotes of one line of a file: all numeric, and one with a volume cell
\* that is no number
Q1 == [open |-> "10", high |-> "12", low |-> "9", close |-> "11", volume |-> "500"]

Q2 == [open |-> "10", high |-> "12", low |-> "9", close |-> "10", volume |-> "halted"]

Row(t, d, q) ==
    [ticker |-> t, date |-> d, open |-> q.open, high |-> q.high,
     low |-> q.low, close |-> q.close, volume |-> q.volume]

\* the rows of the one-line files; a date is the number YYYYMMDD, as it is
\* written in the Stooq files
RowPool ==
    {Row("A.US", d, Q1) : d \in {19991231, 20000101, 20191231}}
        \cup {Row("A.US", 20000101, Q2)}
        \cup {Row("B.US", 20200101, Q1)}

\* the file name without .txt, as the parts between its dots
StemOfTicker(t) == IF t = "A.US" THEN <<"A", "us">> ELSE <<"b", "us">>

\* content of a file: "empty" (no bytes), "undecodable" (bytes that are not
\* utf-8), or "text": a header line followed by the data lines `lines`
File(stem, content, lines) == [stem |-> stem, content |-> content, lines |-> lines]

FilePool ==
    {File(StemOfTicker(r.ticker), "text", <<r>>) : r \in RowPool}
        \cup {File(<<"A", "us">>, "text",
                   <<Row("A.US", 20200101, Q1), Row("B.US", 20000101, Q1)>>)}
        \cup {File(<<"c", "us">>, "text", <<>>),
              File(<<"d", "us">>, "empty", <<>>),
              File(<<"e", "us">>, "undecodable", <<>>)}

RECURSIVE SeqsUpTo(_, _)
SeqsUpTo(S, n) ==
    IF n = 0 THEN {<<>>}
    ELSE LET shorter == SeqsUpTo(S, n - 1)
         IN  shorter \cup {Append(s, x) : s \in {t \in shorter : Len(t) = n - 1}, x \in S}

\* the listings path.glob('**/*.txt') can yield for one directory
Dirs == SeqsUpTo(FilePool, MaxFiles)

\* a directory holding one file with one row of the period
DefaultDir == <<File(<<"b", "us">>, "text", <<Row("B.US", 20000101, Q1)>>)>>

(***************************************************************************)
(* The configured (market, asset class) pairs and the store keys.          *)
(***************************************************************************)
\* an asset class is its name cut at the blanks, blanks kept
markets ==
    <<[market |-> "us", asset_class |-> <<"nasdaq", " ", "etfs">>],
      [market |-> "us", asset_class |-> <<"nasdaq", " ", "stocks">>],
      [market |-> "us", asset_class |-> <<"nyse", " ", "etfs">>],
      [market |-> "us", asset_class |-> <<"nyse", " ", "stocks">>],
      [market |-> "us", asset_class |-> <<"nysemkt", " ", "stocks">>]>>

RECURSIVE Join(_)
Join(parts) == IF parts = <<>> THEN "" ELSE Head(parts) \o Join(Tail(parts))

\* asset_class.replace(" ", "/")
ReplaceBlanks(parts) == [k \in 1..Len(parts) |-> IF parts[k] = " " THEN "/" ELSE parts[k]]

\* a key without the asset class
StooqKeyMarketOnly(p) == "stooq/" \o p.market \o "/"

\* key = f'stooq/{market}/{asset_class.replace(" ", "/")}/'
StooqKey(p) == "stooq/" \o p.market \o "/" \o Join(ReplaceBlanks(p.asset_class)) \o "/"

\* the pairs, by their index in markets
PairIds == 1..Len(markets)

\* key + 'prices' and key + 'tickers' of every pair
PricesKeys == [p \in PairIds |-> StooqKey(markets[p]) \o "prices"]

TickersKeys == [p \in PairIds |-> StooqKey(markets[p]) \o "tickers"]

PricesKey(p) == PricesKeys[p]

TickersKey(p) == TickersKeys[p]

(***************************************************************************)
(* pandas operations used by the ingestion, on tables kept as sequences of *)
(* rows.                                                                   *)
(***************************************************************************)
\* pd.read_csv(file, names=..., usecols=..., header=0, parse_dates=...)
VARIABLE frequency   \* the argument `frequency` of get_stooq_prices_and_tickers

Frequencies == {"daily", "hourly", "5 min"}

\* an element of a Python list: a string, or a list of strings
Str(s) == [type |-> "str", value |-> s]

List(l) == [type |-> "list", value |-> l]

\* lines 339-344: parse_dates by frequency
parse_dates(f) ==
    IF f \in {"5 min", "hourly"} THEN <<List(<<"date", "time">>)>> ELSE <<Str("date")>>

\* lines 339-344: date_label by frequency
date_label(f) == IF f \in {"5 min", "hourly"} THEN "date_time" ELSE "date"

\* line 348: usecols = ['ticker', 'open', 'high', 'low', 'close', 'volume'] + parse_dates
usecols(f) ==
    <<Str("ticker"), Str("open"), Str("high"), Str("low"), Str("close"), Str("volume")>>
        \o parse_dates(f)

\* read_csv accepts usecols only as a list of strings (or of integers); it
\* raises ValueError for any other list before it reads the file
UsecolsValid(u) == \A k \in 1..Len(u) : u[k].type = "str"

read_csv(file) ==
    CASE ~UsecolsValid(usecols(frequency)) -> [exc |-> "ValueError", df |-> <<>>]
      [] file.content = "empty" -> [exc |-> "EmptyDataError", df |-> <<>>]
      [] file.content = "undecodable" -> [exc |-> "UnicodeDecodeError", df |-> <<>>]
      [] OTHER -> [exc |-> "none", df |-> file.lines]

\* an except clause that forgets pd.errors.EmptyDataError
CaughtIndexErrorOnly == {"IndexError"}

\* the exceptions the except clause of the parse loop catches
Caught == {"EmptyDataError", "IndexError"}

\* file.stem.split('.')[0].lower()
Lower(s) == IF s = "A" THEN "a" ELSE IF s = "B" THEN "b" ELSE s

StemName(file) == Lower(file.stem[1])

\* pd.concat(prices, ignore_index=True)
RECURSIVE concat(_)
concat(dfs) == IF dfs = <<>> THEN <<>> ELSE Head(dfs) \o concat(Tail(dfs))

\* errors='ignore' in place of errors='coerce': the cell is left as it is
to_numeric_ignore(v) == v

\* pd.to_numeric(x, errors='coerce') on one cell
to_numeric(v) == IF v \in NumericText THEN v ELSE NaN

\* .apply(lambda x: pd.to_numeric(x, errors='coerce')) on the five columns
CoerceRow(r) ==
    [ticker |-> r.ticker, date |-> r.date,
     open |-> to_numeric(r.open), high |-> to_numeric(r.high),
     low |-> to_numeric(r.low), close |-> to_numeric(r.close),
     volume |-> to_numeric(r.volume)]

Coerce(t) == [k \in 1..Len(t) |-> CoerceRow(t[k])]

\* order of the (ticker, date) index
KeyLE(a, b) ==
    \/ TickerRank(a.ticker) < TickerRank(b.ticker)
    \/ a.ticker = b.ticker /\ a.date <= b.date

\* r put behind the rows of the sorted table t whose key is not larger
InsertSorted(r, t) ==
    LET n == Cardinality({j \in 1..Len(t) : KeyLE(t[j], r)})
    IN  SubSeq(t, 1, n) \o <<r>> \o SubSeq(t, n + 1, Len(t))

\* a table left in the order of its rows
sort_index_none(t) == t

\* DataFrame.sort_index() on the (ticker, date) index: a stable sort
RECURSIVE sort_index(_)
sort_index(t) ==
    IF t = <<>> THEN <<>>
    ELSE InsertSorted(t[Len(t)], sort_index(SubSeq(t, 1, Len(t) - 1)))

PeriodStart == 2000

PeriodEnd == 2019

YearOf(d) == d \div 10000

\* a slice that stops before the last year
InPeriodEndExclusive(d) == PeriodStart <= YearOf(d) /\ YearOf(d) < PeriodEnd

\* the label slice '2000':'2019' on the date level: both years inclusive
InPeriod(d) == PeriodStart <= YearOf(d) /\ YearOf(d) <= PeriodEnd

\* .loc[idx[:, '2000': '2019'], :]
LocPeriod(t) == SelectSeq(t, LAMBDA r : InPeriod(r.date))

\* drop_duplicates(subset=['ticker', 'date']): the first row of every ticker
\* and date is kept
RECURSIVE drop_duplicates_on_index(_)
drop_duplicates_on_index(t) ==
    IF t = <<>> THEN <<>>
    ELSE LET front == drop_duplicates_on_index(SubSeq(t, 1, Len(t) - 1))
             last == t[Len(t)]
         IN  IF \E j \in 1..Len(front) :
                    front[j].ticker = last.ticker /\ front[j].date = last.date
             THEN front ELSE Append(front, last)

\* the table with its duplicates left in
drop_duplicates_none(t) == t

\* .reset_index().drop_duplicates().set_index(names): the first of the rows
\* equal in every column is kept
RECURSIVE drop_duplicates(_)
drop_duplicates(t) ==
    IF t = <<>> THEN <<>>
    ELSE LET front == drop_duplicates(SubSeq(t, 1, Len(t) - 1))
             last == t[Len(t)]
         IN  IF \E j \in 1..Len(front) : front[j] = last
             THEN front ELSE Append(front, last)

\* lines 709-715 of the store loop
StoreLoopTable(t) == sort_index(drop_duplicates(LocPeriod(sort_index(t))))

(***************************************************************************)
(* The notebooks as sequences of cells run in document order.              *)
(***************************************************************************)
\* the cell of the Stooq notebook that writes to the store
StooqNotebook == <<"stooq_store_loop">>

\* the cells of the datasets notebook that write to the store, with the key
\* each one puts its table under
WithKey ==
    [quandl_wiki_prices |-> "quandl/wiki/prices",
     quandl_wiki_stocks |-> "quandl/wiki/stocks",
     sp500_fred |-> "sp500/fred",
     sp500_stooq |-> "sp500/stooq",
     sp500_stocks |-> "sp500/stocks",
     us_equities_stocks |-> "us_equities/stocks",
     fred_assets |-> "fred/assets"]

DatasetsNotebook ==
    <<"quandl_wiki_prices", "quandl_wiki_stocks", "sp500_fred", "read_spx",
      "sp500_stooq", "sp500_stocks", "exchange_download", "mcap_suffix",
      "mcap_convert", "df_marketcap", "read_meta", "us_equities_stocks",
      "fred_assets">>

\* a call of get_stooq_prices_and_tickers by itself
FunctionCall == <<"get_stooq_prices_and_tickers">>

\* the files a run of both notebooks is checked with
RunFilePool ==
    {File(<<"A", "us">>, "text", <<Row("A.US", 20000101, Q1)>>),
     File(<<"b", "us">>, "text", <<Row("B.US", 20200101, Q1)>>),
     File(<<"d", "us">>, "empty", <<>>)}

RunDirs == SeqsUpTo(RunFilePool, MaxFiles)

(***************************************************************************)
(* download_price_data and the cell that calls it for each market.         *)
(***************************************************************************)
DownloadNotebook == <<"download_price_data">>

\* for market in ['us', 'jp']
DownloadMarkets == <<"us", "jp">>

\* the default of the parameter freq
DefaultFreq == "d"

\* data_name, below stooq_path
DataName(freq, market) == ".downloaded/" \o freq \o "_" \o market \o "_txt.zip"

\* a name of an archive, as its directory, its stem and its extension
Entry(dir, stem, ext) == <<dir, stem, ext>>

EntryPool ==
    {Entry("data/daily/us/nasdaq etfs/", "", ""),
     Entry("data/daily/us/nasdaq etfs/", "a.us", ".txt"),
     Entry("data/daily/us/nyse etfs/", "b.us", ".txt")}

\* the archives that can lie in stooq/.downloaded: the hourly archive of the
\* US market always, the daily archives of the two markets or not
ArchiveChoices ==
    LET us == {<<>>} \cup {DataName("d", "us") :> nl : nl \in SeqsUpTo(EntryPool, MaxNames)}
        jp == {<<>>, DataName("d", "jp") :> <<Entry("data/daily/jp/tse stocks/", "1.jp", ".txt")>>}
    IN  {(DataName("h", "us") :> <<>>) @@ a @@ b : a \in us, b \in jp}

\* file.endswith('.txt')
EndsWithTxt(e) == e[3] = ".txt"

\* local_file.parent
Parent(e) == Entry(e[1], "", "")

(***************************************************************************)
(* The tables of the datasets notebook.                                    *)
(***************************************************************************)
Frame(name, index, cols, rows) ==
    [name |-> name, index |-> index, cols |-> cols, rows |-> rows]

NoFrame == Frame("undefined", "none", {}, <<>>)

\* the tables the cells build that are not followed row by row
CellFrame ==
    [quandl_wiki_prices |->
         Frame("wiki_prices.csv", "date, ticker",
               {"open", "high", "low", "close", "volume"}, <<>>),
     quandl_wiki_stocks |-> Frame("wiki_stocks.csv", "RangeIndex", {"code", "name"}, <<>>),
     sp500_fred |-> Frame("SP500 of FRED", "DATE", {"close"}, <<>>),
     sp500_stocks |->
         Frame("List_of_S&P_500_companies", "RangeIndex",
               {"ticker", "name", "gics_sector", "gics_sub_industry", "location",
                "first_added", "cik", "founded"}, <<>>),
     fred_assets |-> Frame("FRED series", "DATE", {"US Corp Master TRI"}, <<>>)]

\* a cell of a column that holds text, a number, or nothing
NaNCell == [kind |-> "nan", s |-> <<>>, v |-> 0]

Text(cs) == [kind |-> "str", s |-> cs, v |-> 0]

Num(x) == [kind |-> "num", s |-> <<>>, v |-> x]

\* the ascending sequence of a set of numbers
RECURSIVE Ascending(_)
Ascending(S) ==
    IF S = {} THEN <<>>
    ELSE LET m == CHOOSE x \in S : \A y \in S : x <= y
         IN  <<m>> \o Ascending(S \ {m})

\* ^spx_d.csv: one row per trading day, ascending by date
SpxRow(d) == [date |-> d, close |-> "16.66"]

SpxPool ==
    {[k \in 1..Len(ds) |-> SpxRow(ds[k])] :
        ds \in {Ascending(S) : S \in SUBSET {19491230, 19500103, 20191231, 20200102}}}

\* .loc['1950':'2019'] on the dates: the rows of the years 1950 through 2019
SpxFirstYear == 1950

SpxLastYear == 2019

LocYears(t, first, last) ==
    LET Keep(r) == first <= YearOf(r.date) /\ YearOf(r.date) <= last
    IN  SelectSeq(t, Keep)

\* the tables of the exchange downloads, before and after the conversion
ExRow(symbol, marketcap) == [symbol |-> symbol, marketcap |-> marketcap]

McapTexts ==
    {Text(<<"$", "2", "M">>), Text(<<"$", "1", "2", "M">>), Text(<<"$", "2", "B">>),
     Text(<<"n", "/", "a">>)}

ExRowPool == {ExRow(sym, mc) : sym \in {"TXG", "YI"}, mc \in McapTexts \cup {NaNCell}}

\* what the downloads from old.nasdaq.com give: the rows, or an HTTP error
ExchangePool ==
    {[ok |-> FALSE, rows |-> <<>>]}
        \cup {[ok |-> TRUE, rows |-> t] : t \in SeqsUpTo(ExRowPool, MaxRows)}

\* df[~df.index.duplicated()]: the first row of every symbol
RECURSIVE DropDuplicatedIndex(_)
DropDuplicatedIndex(t) ==
    IF t = <<>> THEN <<>>
    ELSE LET front == DropDuplicatedIndex(SubSeq(t, 1, Len(t) - 1))
             last == t[Len(t)]
         IN  IF \E j \in 1..Len(front) : front[j].symbol = last.symbol
             THEN front ELSE Append(front, last)

\* lines 1344-1346
ExchangeFrame(rows) ==
    Frame("exchanges", "symbol",
          {"name", "lastsale", "marketcap", "ipoyear", "sector", "industry"},
          DropDuplicatedIndex(rows))

\* df[['marketcap']].dropna()
DropNa(t) == SelectSeq(t, LAMBDA r : r.marketcap.kind # "nan")

\* mcap['suffix'] = mcap.marketcap.str[-1]
Last(cs) == cs[Len(cs)]

WithSuffix(t) ==
    [k \in 1..Len(t) |->
        [symbol |-> t[k].symbol, marketcap |-> t[k].marketcap,
         suffix |-> Last(t[k].marketcap.s)]]

\* mcap[mcap.suffix.str.endswith(('B', 'M'))]
HasUnit(t) == SelectSeq(t, LAMBDA r : r.suffix \in {"B", "M"})

\* .str[1:-1]
Middle(cs) == SubSeq(cs, 2, Len(cs) - 1)

DigitValue ==
    ("0" :> 0) @@ ("1" :> 1) @@ ("2" :> 2) @@ ("3" :> 3) @@ ("4" :> 4) @@ ("5" :> 5)
        @@ ("6" :> 6) @@ ("7" :> 7) @@ ("8" :> 8) @@ ("9" :> 9)

\* pd.to_numeric of a text can be done: the text is a number
IsNumber(cs) == cs # <<>> /\ \A k \in 1..Len(cs) : cs[k] \in DOMAIN DigitValue

\* pd.to_numeric of the text of a number
RECURSIVE NumberOf(_)
NumberOf(cs) ==
    IF cs = <<>> THEN 0
    ELSE 10 * NumberOf(SubSeq(cs, 1, Len(cs) - 1)) + DigitValue[Last(cs)]

\* mcap.marketcap = pd.to_numeric(mcap.marketcap.str[1:-1])
MiddleToNumeric(t) ==
    [k \in 1..Len(t) |-> [t[k] EXCEPT !.marketcap = Num(NumberOf(Middle(t[k].marketcap.s)))]]

\* a dict that takes billions for millions
mcapsMillionsOnly ==
    <<[symbol |-> "M", factor |-> 1000000], [symbol |-> "B", factor |-> 1000000]>>

\* mcaps = {'M': 1e6, 'B': 1e9}, in the order of mcaps.items()
mcaps ==
    <<[symbol |-> "M", factor |-> 1000000], [symbol |-> "B", factor |-> 1000000000]>>

\* mcap.loc[mcap.suffix == symbol, 'marketcap'] *= factor
TimesFactor(t, symbol, factor) ==
    [k \in 1..Len(t) |->
        IF t[k].suffix = symbol
        THEN [t[k] EXCEPT !.marketcap = Num(t[k].marketcap.v * factor)]
        ELSE t[k]]

\* for symbol, factor in mcaps.items(): ..., from the j-th item on
RECURSIVE ForFactors(_, _)
ForFactors(t, j) ==
    IF j > Len(mcaps) THEN t
    ELSE ForFactors(TimesFactor(t, mcaps[j].symbol, mcaps[j].factor), j + 1)

\* df['marketcap'] = mcap.marketcap: by the index; a row of df without a row
\* in mcap gets a missing value
AssignByIndex(rows, m) ==
    [k \in 1..Len(rows) |->
        IF \E j \in 1..Len(m) : m[j].symbol = rows[k].symbol
        THEN [rows[k] EXCEPT !.marketcap =
                  m[CHOOSE j \in 1..Len(m) : m[j].symbol = rows[k].symbol].marketcap]
        ELSE [rows[k] EXCEPT !.marketcap = NaNCell]]

\* us_equities_meta_data.csv
MetaRow(ticker, marketcap) == [ticker |-> ticker, marketcap |-> marketcap]

MetaPool ==
    {<<MetaRow("PIH", Num(2000000))>>,
     <<MetaRow("PIH", Num(2000000)), MetaRow("TURN", NaNCell)>>}

MetaFrame(rows) ==
    Frame("us_equities_meta_data.csv", "RangeIndex",
          {"ticker", "name", "lastsale", "marketcap", "ipoyear", "sector", "industry"},
          rows)

\* a cell that reads the csv file into a variable of its own
DfAfterMetaReadKeep(old, meta) == old

\* df = pd.read_csv('us_equities_meta_data.csv')
DfAfterMetaRead(old, meta) == meta

\* df.set_index('ticker')
set_index(frame, col) == [frame EXCEPT !.index = col, !.cols = frame.cols \ {col}]

\* what the datasets notebook reads
Inputs(spx, exchanges, meta) == [spx |-> spx, exchanges |-> exchanges, meta |-> meta]

DefaultInputs ==
    Inputs(<<SpxRow(19500103), SpxRow(20191231)>>,
           [ok |-> TRUE, rows |-> <<ExRow("TXG", Text(<<"$", "2", "B">>))>>],
           <<MetaRow("PIH", Num(2000000))>>)

\* one of the three inputs is any of its pool, the others are the default
InputPool ==
    {[DefaultInputs EXCEPT !.spx = t] : t \in SpxPool}
        \cup {[DefaultInputs EXCEPT !.exchanges = e] : e \in ExchangePool}
        \cup {[DefaultInputs EXCEPT !.meta = m] : m \in MetaPool}

(***************************************************************************)
(* State.                                                                  *)
(***************************************************************************)
VARIABLES
    doc,        \* the cells to run, in document order
    cell,       \* index in doc of the cell that runs or runs next
    pc,         \* position inside the running cell
    error,      \* the exception that ended the cell, and where it was raised
    fs,         \* per pair, the *.txt files under its directory, in glob order
    pair,       \* index in markets of the pair the store loop is at
    files,      \* get_stooq_prices_and_tickers: the files of path.glob
    i,          \* get_stooq_prices_and_tickers: enumerate index of the next file
    reads,      \* get_stooq_prices_and_tickers: the indexes read_csv was called for
    frames,     \* get_stooq_prices_and_tickers: the list `prices`
    tickers,    \* get_stooq_prices_and_tickers: the dict `tickers`
    prices,     \* the table `prices` (after pd.concat)
    out,        \* stems printed as 'data missing <stem>'
    store,      \* assets.h5: key -> stored value
    hdf,        \* state of the HDFStore handle of the current write
    handles,    \* number of handles open on assets.h5
    faults,     \* number of puts that raised so far
    hdfTrace,   \* the opens, puts and closes on assets.h5 so far
    archives,   \* stooq/.downloaded: archive name -> namelist of the archive
    disk,       \* the directories and files made under stooq/ by the download
    dl,         \* index in DownloadMarkets of the market the download cell is at
    entry,      \* download_price_data: index of the next name of the namelist
    inputs,     \* the csv files and downloads the datasets notebook reads
    df,         \* the notebook variable df
    sp500_stooq,\* the notebook variable sp500_stooq
    mcap        \* the notebook variable mcap

vars ==
    <<doc, cell, pc, error, fs, pair, files, i, reads, frames, tickers, prices,
      out, store, hdf, handles, faults, hdfTrace, frequency, archives, disk,
      dl, entry, inputs, df, sp500_stooq, mcap>>

\* what a run reads and never changes
env == <<fs, frequency, archives, inputs>>

dlVars == <<disk, dl, entry>>

nbVars == <<df, sp500_stooq, mcap>>

fnVars == <<files, i, reads, frames, tickers, prices, out>>

hdfVars == <<store, hdf, handles, faults, hdfTrace>>

NoError == [exc |-> "none", at |-> "none"]

InitCommon ==
    /\ cell = 1
    /\ pc = "ready"
    /\ error = NoError
    /\ pair = 0
    /\ files = <<>>
    /\ i = 1
    /\ reads = <<>>
    /\ frames = <<>>
    /\ tickers = <<>>
    /\ prices = <<>>
    /\ out = <<>>
    /\ hdf = "idle"
    /\ handles = 0
    /\ faults = 0
    /\ hdfTrace = <<>>
    /\ disk = {}
    /\ dl = 0
    /\ entry = 1
    /\ df = NoFrame
    /\ sp500_stooq = <<>>
    /\ mcap = [defined |-> FALSE, rows |-> <<>>]

\* one pair's directory is any listing of Dirs, the others hold DefaultDir;
\* that pair is the first, the second or the last of the loop
FileSystems(dirs) ==
    {[p \in 1..Len(markets) |-> IF p = rp THEN d ELSE DefaultDir] :
        rp \in {1, 2, Len(markets)}, d \in dirs}

\* assets.h5 as an earlier run of the notebooks can have left it: the tables
\* of the Japanese stocks and of the S&P 500 from FRED
AssetsBefore ==
    ("stooq/jp/tse/stocks/prices" :> <<Row("A.US", 20000101, Q1)>>)
        @@ ("sp500/fred" :> Frame("SP500 of FRED, earlier run", "DATE", {"close"}, <<>>))

\* line 699: frequency = 'daily'
StoreLoopFrequency == "daily"

DefaultArchives == DataName("d", "us") :> <<>>

Init ==
    /\ doc = StooqNotebook
    /\ fs \in FileSystems(Dirs)
    /\ frequency = StoreLoopFrequency
    /\ archives = DefaultArchives
    /\ inputs = DefaultInputs
    /\ store = <<>>
    /\ InitCommon

\* the store does not exist yet, or holds the tables of an earlier run
InitRun ==
    /\ doc = StooqNotebook \o DatasetsNotebook
    /\ fs \in FileSystems(RunDirs)
    /\ frequency = StoreLoopFrequency
    /\ archives = DefaultArchives
    /\ inputs = DefaultInputs
    /\ store \in {<<>>, AssetsBefore}
    /\ InitCommon

\* the download cell, for any content of stooq/.downloaded
InitDownload ==
    /\ doc = DownloadNotebook
    /\ fs = [p \in 1..Len(markets) |-> DefaultDir]
    /\ frequency = StoreLoopFrequency
    /\ archives \in ArchiveChoices
    /\ inputs = DefaultInputs
    /\ store = <<>>
    /\ InitCommon

\* the datasets notebook, for any of its inputs
InitData ==
    /\ doc = DatasetsNotebook
    /\ fs = [p \in 1..Len(markets) |-> DefaultDir]
    /\ frequency = StoreLoopFrequency
    /\ archives = DefaultArchives
    /\ inputs \in InputPool
    /\ store = <<>>
    /\ InitCommon

\* a call of get_stooq_prices_and_tickers with any frequency
InitCall ==
    /\ doc = FunctionCall
    /\ fs \in FileSystems(Dirs)
    /\ frequency \in Frequencies
    /\ archives = DefaultArchives
    /\ inputs = DefaultInputs
    /\ store = <<>>
    /\ InitCommon

(***************************************************************************)
(* The cell has ended: the next cell of the document is up.                *)
(***************************************************************************)
CellDone ==
    /\ cell' = cell + 1
    /\ pc' = IF cell + 1 > Len(doc) THEN "end" ELSE "ready"

Raise(exc, at) ==
    /\ error' = [exc |-> exc, at |-> at]
    /\ pc' = "raised"

(***************************************************************************)
(* The store loop cell.                                                    *)
(***************************************************************************)
RunStoreLoopCell ==
    /\ pc = "ready"
    /\ doc[cell] = "stooq_store_loop"
    /\ pc' = "for"
    /\ pair' = 0
    /\ UNCHANGED <<doc, cell, error, env, dlVars, nbVars, fnVars, hdfVars>>

\* for market, asset_classes in markets.items(): for asset_class in ...:
\* the call of get_stooq_prices_and_tickers up to files = path.glob(...)
ForNextPair ==
    /\ pc = "for"
    /\ pair < Len(markets)
    /\ pair' = pair + 1
    /\ files' = fs[pair + 1]
    /\ i' = 1
    /\ reads' = <<>>
    /\ frames' = <<>>
    /\ tickers' = <<>>
    /\ pc' = "parse"
    /\ UNCHANGED <<doc, cell, error, env, dlVars, nbVars, prices, out, hdfVars>>

ForExhausted ==
    /\ pc = "for"
    /\ pair >= Len(markets)
    /\ CellDone
    /\ UNCHANGED <<doc, error, env, dlVars, nbVars, pair, fnVars, hdfVars>>

\* a loop that ends after its first file
HasNextFileFirstOnly == i <= Len(files) /\ i <= 1

\* the for loop over the files has a file left
HasNextFile == i <= Len(files)

\* an except clause that tries the same file again
AfterCaughtRetry(k) == k

\* the index of the file the loop goes on with after the except clause
AfterCaught(k) == k + 1

\* the exception one pass of the try block ends with: that of read_csv, or
\* the IndexError of df.ticker.iloc[0] on a table without rows
TryExc(file) ==
    LET r == read_csv(file)
    IN  IF r.exc # "none" THEN r.exc
        ELSE IF Len(r.df) = 0 THEN "IndexError" ELSE "none"

\* prices = [df] in place of prices.append(df): the list holds the last table
FramesAfterTryLast(fr, file) ==
    LET r == read_csv(file)
    IN  IF r.exc = "none" THEN <<r.df>> ELSE fr

\* the list `prices` after the try block: prices.append(df) comes right after
\* read_csv and before df.ticker.iloc[0]
FramesAfterTry(fr, file) ==
    LET r == read_csv(file)
    IN  IF r.exc = "none" THEN Append(fr, r.df) ELSE fr

\* one iteration of `for i, file in enumerate(files, 1)`
ParseFile ==
    /\ pc = "parse"
    /\ HasNextFile
    /\ LET file == files[i]
           exc == TryExc(file)
       IN  /\ reads' = Append(reads, i)
           /\ frames' = FramesAfterTry(frames, file)
           /\ IF exc = "none"
              THEN /\ tickers' = (read_csv(file).df[1].ticker :> StemName(file)) @@ tickers
                   /\ i' = i + 1
                   /\ UNCHANGED <<pc, error, out>>
              ELSE IF exc \in Caught
              THEN \* print('\tdata missing', file.stem)
                   /\ out' = Append(out, file.stem)
                   /\ i' = AfterCaught(i)
                   /\ UNCHANGED <<pc, error, tickers>>
              ELSE \* any other exception leaves the function
                   /\ Raise(exc, "get_stooq_prices_and_tickers")
                   /\ UNCHANGED <<tickers, i, out>>
    /\ UNCHANGED <<doc, cell, env, dlVars, nbVars, pair, files, prices, hdfVars>>

\* after the loop: pd.concat(...).rename(...).set_index(...).apply(...), return
ConcatReturn ==
    /\ pc = "parse"
    /\ ~HasNextFile
    /\ IF frames = <<>>
       THEN \* pd.concat of an empty list: ValueError, No objects to concatenate
            /\ Raise("ValueError", "get_stooq_prices_and_tickers")
            /\ UNCHANGED prices
       ELSE /\ prices' = Coerce(concat(frames))
            /\ pc' = "post"
            /\ UNCHANGED error
    /\ UNCHANGED <<doc, cell, env, dlVars, nbVars, pair, files, i, reads, frames, tickers, out, hdfVars>>

\* lines 709-715: sort, slice the period, drop duplicates, sort
PostProcess ==
    /\ pc = "post"
    /\ prices' = StoreLoopTable(prices)
    /\ pc' = "to_hdf_prices"
    /\ UNCHANGED <<doc, cell, error, env, dlVars, nbVars, pair, files, i, reads, frames, tickers, out, hdfVars>>

(***************************************************************************)
(* Writes to assets.h5.  DataFrame.to_hdf(DATA_STORE, key, format='t') and *)
(* `with pd.HDFStore(DATA_STORE) as store: store.put(key, df)` both open a *)
(* handle, put, and close the handle on leaving the with block.            *)
(***************************************************************************)
WritePcs == {"to_hdf_prices", "to_hdf_tickers", "with"}

PendingKey ==
    CASE pc = "to_hdf_prices" -> PricesKey(pair)
      [] pc = "to_hdf_tickers" -> TickersKey(pair)
      [] OTHER -> WithKey[doc[cell]]

\* mode='w' in place of the default mode='a': the file is made anew
to_hdf_truncate(st, key, value) == IF value = <<>> THEN st ELSE (key :> value)

\* to_hdf(..., format='t'): a table without rows is not written at all
to_hdf(st, key, value) == IF value = <<>> THEN st ELSE (key :> value) @@ st

\* store.put(key, df)
put(st, key, value) == (key :> value) @@ st

\* the table a with-cell puts: sp500_stooq, df.set_index('ticker'), or df
PutArg ==
    CASE doc[cell] = "sp500_stooq" -> sp500_stooq
      [] doc[cell] = "us_equities_stocks" -> set_index(df, "ticker")
      [] OTHER -> df

\* df.set_index('ticker') raises KeyError when df has no column ticker
PutArgRaises == pc = "with" /\ doc[cell] = "us_equities_stocks" /\ "ticker" \notin df.cols

StoreAfterPut ==
    CASE pc = "to_hdf_prices" -> to_hdf(store, PendingKey, prices)
      [] pc = "to_hdf_tickers" -> to_hdf(store, PendingKey, tickers)
      [] OTHER -> put(store, PendingKey, PutArg)

\* a put that, when it raises, takes back the tables written before it
StoreAfterRaiseRollback(st, key) == <<>>

\* the store after a put that raised: what was stored before stays
StoreAfterRaise(st, key) == st

\* a block that closes the handle only when the put went through
HandlesAfterExitLeak(h, state) == IF state = "failed" THEN h ELSE h - 1

\* HDFStore.__exit__ closes the handle however the block was left
HandlesAfterExit(h, state) == h - 1

HdfOpen ==
    /\ pc \in WritePcs
    /\ hdf = "idle"
    /\ hdf' = "open"
    /\ handles' = handles + 1
    /\ hdfTrace' = Append(hdfTrace, <<"open", PendingKey>>)
    /\ UNCHANGED <<doc, cell, pc, error, env, dlVars, nbVars, pair, fnVars, store, faults>>

\* the put inside the block: it writes the table, or raises (an I/O error)
HdfPut ==
    /\ pc \in WritePcs
    /\ hdf = "open"
    /\ \E ok \in IF PutArgRaises THEN {FALSE}
                  ELSE IF faults < MaxFaults THEN BOOLEAN ELSE {TRUE} :
          IF ok
          THEN /\ store' = StoreAfterPut
               /\ hdf' = "written"
               /\ hdfTrace' = Append(hdfTrace, <<"put", PendingKey>>)
               /\ UNCHANGED faults
          ELSE /\ hdf' = "failed"
               /\ faults' = IF PutArgRaises THEN faults ELSE faults + 1
               /\ hdfTrace' = Append(hdfTrace, <<"raise", PendingKey>>)
               /\ store' = StoreAfterRaise(store, PendingKey)
    /\ UNCHANGED <<doc, cell, pc, error, env, dlVars, nbVars, pair, fnVars, handles>>

HdfClose ==
    /\ pc \in WritePcs
    /\ hdf \in {"written", "failed"}
    /\ handles' = HandlesAfterExit(handles, hdf)
    /\ hdfTrace' =
          IF HandlesAfterExit(handles, hdf) < handles
          THEN Append(hdfTrace, <<"close", PendingKey>>) ELSE hdfTrace
    /\ hdf' = "idle"
    /\ IF hdf = "failed"
       THEN /\ Raise(IF PutArgRaises THEN "KeyError" ELSE "HDF5ExtError", "put")
            /\ UNCHANGED cell
       ELSE /\ UNCHANGED error
            /\ CASE pc = "to_hdf_prices" -> pc' = "to_hdf_tickers" /\ UNCHANGED cell
                 [] pc = "to_hdf_tickers" -> pc' = "for" /\ UNCHANGED cell
                 [] OTHER -> CellDone
    /\ UNCHANGED <<doc, env, dlVars, nbVars, pair, fnVars, store, faults>>

(***************************************************************************)
(* The cells of the datasets notebook: build df, then put it in the store. *)
(***************************************************************************)
RunWithCell ==
    /\ pc = "ready"
    /\ doc[cell] \in DOMAIN WithKey
    /\ pc' = "with"
    /\ df' = IF doc[cell] \in DOMAIN CellFrame THEN CellFrame[doc[cell]] ELSE df
    /\ UNCHANGED <<doc, cell, error, env, dlVars, sp500_stooq, mcap, pair, fnVars, hdfVars>>

\* lines 1062-1064: sp500_stooq = pd.read_csv('^spx_d.csv', ...).loc['1950':'2019']
ReadSpx ==
    /\ pc = "ready"
    /\ doc[cell] = "read_spx"
    /\ sp500_stooq' = LocYears(inputs.spx, SpxFirstYear, SpxLastYear)
    /\ CellDone
    /\ UNCHANGED <<doc, error, env, dlVars, df, mcap, pair, fnVars, hdfVars>>

\* lines 1342-1347: the downloads from the exchanges; "no longer works"
ExchangeDownload ==
    /\ pc = "ready"
    /\ doc[cell] = "exchange_download"
    /\ IF inputs.exchanges.ok
       THEN /\ df' = ExchangeFrame(inputs.exchanges.rows)
            /\ CellDone
            /\ UNCHANGED error
       ELSE /\ Raise("HTTPError", "read_csv")
            /\ UNCHANGED <<cell, df>>
    /\ UNCHANGED <<doc, env, dlVars, sp500_stooq, mcap, pair, fnVars, hdfVars>>

\* lines 1495-1497: mcap = df[['marketcap']].dropna(); mcap['suffix'] = ...
McapSuffix ==
    /\ pc = "ready"
    /\ doc[cell] = "mcap_suffix"
    /\ IF "marketcap" \in df.cols
       THEN /\ mcap' = [defined |-> TRUE, rows |-> WithSuffix(DropNa(df.rows))]
            /\ CellDone
            /\ UNCHANGED error
       ELSE /\ Raise("KeyError", "df[['marketcap']]")
            /\ UNCHANGED <<cell, mcap>>
    /\ UNCHANGED <<doc, env, dlVars, df, sp500_stooq, pair, fnVars, hdfVars>>

\* lines 1529-1534: keep the rows with a unit, make the text a number, and
\* multiply by the factor of the unit
McapConvert ==
    /\ pc = "ready"
    /\ doc[cell] = "mcap_convert"
    /\ IF ~mcap.defined
       THEN /\ Raise("NameError", "mcap")
            /\ UNCHANGED <<cell, mcap>>
       ELSE LET kept == HasUnit(mcap.rows)
            IN  IF \A k \in 1..Len(kept) : IsNumber(Middle(kept[k].marketcap.s))
                THEN /\ mcap' = [mcap EXCEPT !.rows = ForFactors(MiddleToNumeric(kept), 1)]
                     /\ CellDone
                     /\ UNCHANGED error
                ELSE /\ mcap' = [mcap EXCEPT !.rows = kept]
                     /\ Raise("ValueError", "pd.to_numeric")
                     /\ UNCHANGED cell
    /\ UNCHANGED <<doc, env, dlVars, df, sp500_stooq, pair, fnVars, hdfVars>>

\* line 1568: df['marketcap'] = mcap.marketcap
AssignMarketcap ==
    /\ pc = "ready"
    /\ doc[cell] = "df_marketcap"
    /\ IF ~mcap.defined
       THEN /\ Raise("NameError", "mcap")
            /\ UNCHANGED <<cell, df>>
       ELSE /\ df' = [df EXCEPT !.rows = AssignByIndex(df.rows, mcap.rows),
                                !.cols = df.cols \cup {"marketcap"}]
            /\ CellDone
            /\ UNCHANGED error
    /\ UNCHANGED <<doc, env, dlVars, sp500_stooq, mcap, pair, fnVars, hdfVars>>

\* line 1622: df = pd.read_csv('us_equities_meta_data.csv')
ReadMeta ==
    /\ pc = "ready"
    /\ doc[cell] = "read_meta"
    /\ df' = DfAfterMetaRead(df, MetaFrame(inputs.meta))
    /\ CellDone
    /\ UNCHANGED <<doc, error, env, dlVars, sp500_stooq, mcap, pair, fnVars, hdfVars>>

\* a cell that raised has ended; the cells after it can still be run
ContinueAfterError ==
    /\ pc = "raised"
    /\ cell < Len(doc)
    /\ cell' = cell + 1
    /\ pc' = "ready"
    /\ error' = NoError
    /\ UNCHANGED <<doc, env, dlVars, nbVars, pair, fnVars, hdfVars>>

(***************************************************************************)
(* The download cell: for market in ['us', 'jp']: download_price_data(...) *)
(***************************************************************************)
RunDownloadCell ==
    /\ pc = "ready"
    /\ doc[cell] = "download_price_data"
    /\ pc' = "dl_for"
    /\ dl' = 0
    /\ UNCHANGED <<doc, cell, error, env, disk, entry, nbVars, pair, fnVars, hdfVars>>

\* a check that takes every archive to be there
ArchiveExistsAlways(name) == TRUE

\* data_name.exists()
ArchiveExists(name) == name \in DOMAIN archives

\* the call for the next market, up to the with statement: the check for the
\* archive, and ZipFile(data_name), which raises FileNotFoundError itself
\* for a file that is not there
DownloadCall ==
    /\ pc = "dl_for"
    /\ dl < Len(DownloadMarkets)
    /\ dl' = dl + 1
    /\ LET data_name == DataName(DefaultFreq, DownloadMarkets[dl + 1])
       IN  IF ~ArchiveExists(data_name)
           THEN /\ Raise("FileNotFoundError", "download_price_data")
                /\ UNCHANGED entry
           ELSE IF data_name \notin DOMAIN archives
           THEN /\ Raise("FileNotFoundError", "ZipFile")
                /\ UNCHANGED entry
           ELSE /\ entry' = 1
                /\ pc' = "dl_extract"
                /\ UNCHANGED error
    /\ UNCHANGED <<doc, cell, env, disk, nbVars, pair, fnVars, hdfVars>>

\* one name of the namelist: a name that does not end in .txt is passed
\* over; else the directory is made and the file is written, or the open
\* raises FileNotFoundError, which is printed
Extract ==
    /\ pc = "dl_extract"
    /\ LET namelist == archives[DataName(DefaultFreq, DownloadMarkets[dl])]
       IN  /\ entry <= Len(namelist)
           /\ entry' = entry + 1
           /\ IF ~EndsWithTxt(namelist[entry])
              THEN UNCHANGED <<disk, out>>
              ELSE \E opened \in BOOLEAN :
                      IF opened
                      THEN /\ disk' = disk \cup {Parent(namelist[entry]), namelist[entry]}
                           /\ UNCHANGED out
                      ELSE /\ disk' = disk \cup {Parent(namelist[entry])}
                           /\ out' = Append(out, <<"FileNotFoundError">>)
    /\ UNCHANGED <<doc, cell, pc, error, env, dl, nbVars, pair, files, i, reads, frames,
                   tickers, prices, hdfVars>>

\* the namelist is exhausted: download_price_data returns
ExtractDone ==
    /\ pc = "dl_extract"
    /\ entry > Len(archives[DataName(DefaultFreq, DownloadMarkets[dl])])
    /\ pc' = "dl_for"
    /\ UNCHANGED <<doc, cell, error, env, dlVars, nbVars, pair, fnVars, hdfVars>>

DownloadExhausted ==
    /\ pc = "dl_for"
    /\ dl >= Len(DownloadMarkets)
    /\ CellDone
    /\ UNCHANGED <<doc, error, env, dlVars, nbVars, pair, fnVars, hdfVars>>

(***************************************************************************)
(* A call of get_stooq_prices_and_tickers for one of the pairs, with the   *)
(* frequency of the run, up to files = path.glob(...).                     *)
(***************************************************************************)
CallFunction ==
    /\ pc = "ready"
    /\ doc[cell] = "get_stooq_prices_and_tickers"
    /\ \E p \in PairIds :
          /\ pair' = p
          /\ files' = fs[p]
    /\ i' = 1
    /\ reads' = <<>>
    /\ frames' = <<>>
    /\ tickers' = <<>>
    /\ pc' = "parse"
    /\ UNCHANGED <<doc, cell, error, env, dlVars, nbVars, prices, out, hdfVars>>

(***************************************************************************)
(* Specifications: a run of the Stooq notebook, and a run of both; the     *)
(* download cell; the datasets notebook with its inputs; a call of         *)
(* get_stooq_prices_and_tickers.                                           *)
(***************************************************************************)
NextStooq ==
    \/ RunStoreLoopCell
    \/ ForNextPair
    \/ ForExhausted
    \/ ParseFile
    \/ ConcatReturn
    \/ PostProcess
    \/ HdfOpen
    \/ HdfPut
    \/ HdfClose

NextData ==
    \/ RunWithCell
    \/ ReadSpx
    \/ ExchangeDownload
    \/ McapSuffix
    \/ McapConvert
    \/ AssignMarketcap
    \/ ReadMeta
    \/ HdfOpen
    \/ HdfPut
    \/ HdfClose
    \/ ContinueAfterError

Next ==
    \/ NextStooq
    \/ NextData

NextDownload ==
    \/ RunDownloadCell
    \/ DownloadCall
    \/ Extract
    \/ ExtractDone
    \/ DownloadExhausted

NextCall ==
    \/ CallFunction
    \/ ParseFile
    \/ ConcatReturn

Spec == Init /\ [][NextStooq]_vars

SpecRun == InitRun /\ [][Next]_vars

SpecDownload == InitDownload /\ [][NextDownload]_vars

SpecData == InitData /\ [][NextData]_vars

SpecCall == InitCall /\ [][NextCall]_vars

(***************************************************************************)
(* Vocabulary of the properties.                                           *)
(***************************************************************************)
Range(f) == {f[x] : x \in DOMAIN f}

FnName == "get_stooq_prices_and_tickers"

SkipExcs == {"EmptyDataError", "IndexError"}

\* the stems of the first n files of a listing whose parse raises one of the
\* two exceptions, in the order of the listing
RECURSIVE MissingStems(_, _)
MissingStems(listing, n) ==
    IF n = 0 THEN <<>>
    ELSE LET before == MissingStems(listing, n - 1)
         IN  IF TryExc(listing[n]) \in SkipExcs
             THEN Append(before, listing[n].stem) ELSE before

\* the tables read_csv returns for the first n files, in order
RECURSIVE ReadFrames(_, _)
ReadFrames(listing, n) ==
    IF n = 0 THEN <<>>
    ELSE LET before == ReadFrames(listing, n - 1)
             r == read_csv(listing[n])
         IN  IF r.exc = "none" THEN Append(before, r.df) ELSE before

\* what the calls for the pairs before the current one have printed
RECURSIVE OutOfPairs(_)
OutOfPairs(n) ==
    IF n = 0 THEN <<>>
    ELSE OutOfPairs(n - 1) \o MissingStems(fs[n], Len(fs[n]))

\* the loop over the files was left before its last file
LoopLeftEarly == pair >= 1 /\ pc # "parse" /\ i <= Len(files)

(***************************************************************************)
(* C1: a file whose parse raises EmptyDataError or IndexError is printed   *)
(* as missing and skipped, and the loop goes on: at every point of a call  *)
(* the printed stems are those of all failing files met so far, every file *)
(* met so far that read_csv could read is in the list, and the loop is     *)
(* left before its last file only by another exception.                    *)
(***************************************************************************)
C1_SkipAndContinue ==
    pair >= 1 =>
        /\ out = OutOfPairs(pair - 1) \o MissingStems(files, i - 1)
        /\ frames = ReadFrames(files, i - 1)
        /\ LoopLeftEarly => TryExc(files[i]) \notin SkipExcs

\* a failing file has been skipped and the file after it has been parsed
C1_Witness ==
    /\ pc = "parse"
    /\ \E j \in 1..Len(files) : \E k \in 1..Len(files) :
          /\ j < k
          /\ k < i
          /\ TryExc(files[j]) \in SkipExcs
          /\ TryExc(files[k]) = "none"

\* the rows read_csv returns for the files of pair p
ParsedRows(p) == UNION {Range(fr) : fr \in Range(ReadFrames(fs[p], Len(fs[p])))}

\* the rows of the table stored under key k; none when nothing is stored
StoredRows(k) == IF k \in DOMAIN store THEN Range(store[k]) ELSE {}

\* the put under key k has gone through
PutDone(k) == <<"put", k>> \in Range(hdfTrace)

\* get_stooq_prices_and_tickers has returned for the current pair
Returned == pair >= 1 /\ pc \in {"post", "to_hdf_prices", "to_hdf_tickers", "for", "end"}

Cols == {"open", "high", "low", "close", "volume"}

(***************************************************************************)
(* C2: get_stooq_prices_and_tickers returns for every set of input files;  *)
(* no error leaves it.  (Fails: pd.concat of an empty list raises, and so  *)
(* does every exception of read_csv the except clause does not name.)      *)
(***************************************************************************)
C2_NoErrorPropagated == error.at # FnName

(***************************************************************************)
(* C3, as claimed: no two rows of a stored prices table share ticker and   *)
(* date.                                                                   *)
(***************************************************************************)
C3_TickerDateUnique ==
    \A p \in PairIds :
        PricesKey(p) \in DOMAIN store =>
            LET t == store[PricesKey(p)]
            IN  \A a \in 1..Len(t) : \A b \in 1..Len(t) :
                    a # b => ~(t[a].ticker = t[b].ticker /\ t[a].date = t[b].date)

(***************************************************************************)
(* C3, amended: no two rows of a stored prices table are equal in ticker,  *)
(* date and all five columns.                                              *)
(***************************************************************************)
C3_NoExactDuplicates ==
    \A p \in PairIds :
        PricesKey(p) \in DOMAIN store =>
            LET t == store[PricesKey(p)]
            IN  \A a \in 1..Len(t) : \A b \in 1..Len(t) : a # b => t[a] # t[b]

\* a stored table holds two rows of one ticker and date
C3_Witness ==
    \E p \in PairIds :
        /\ PricesKey(p) \in DOMAIN store
        /\ LET t == store[PricesKey(p)]
           IN  \E a \in 1..Len(t) : \E b \in 1..Len(t) :
                   a # b /\ t[a].ticker = t[b].ticker /\ t[a].date = t[b].date

(***************************************************************************)
(* C4, as claimed: every row of the returned and of the stored prices      *)
(* table is a row as read_csv parsed it.                                   *)
(***************************************************************************)
C4_ValuesAsParsed ==
    /\ pc = "post" => Range(prices) \subseteq ParsedRows(pair)
    /\ \A p \in PairIds : StoredRows(PricesKey(p)) \subseteq ParsedRows(p)

\* s is the parsed row r with every cell that is no number made missing
CoercedFrom(s, r) ==
    /\ s.ticker = r.ticker
    /\ s.date = r.date
    /\ \A c \in Cols : s[c] = (IF r[c] \in NumericText THEN r[c] ELSE NaN)

(***************************************************************************)
(* C4, amended: every row of the returned and of the stored prices table   *)
(* comes from a parsed row of its pair, with the parsed value in every     *)
(* column whose cell is a number and a missing value (NaN) elsewhere.      *)
(***************************************************************************)
C4_ValuesCoerced ==
    /\ pc = "post" =>
          \A s \in Range(prices) : \E r \in ParsedRows(pair) : CoercedFrom(s, r)
    /\ \A p \in PairIds :
          \A s \in StoredRows(PricesKey(p)) : \E r \in ParsedRows(p) : CoercedFrom(s, r)

\* a stored row whose volume cell was no number
C4_Witness ==
    \E p \in PairIds :
        \E s \in StoredRows(PricesKey(p)) :
            /\ s.volume = NaN
            /\ \E r \in ParsedRows(p) : CoercedFrom(s, r) /\ r.volume \notin NumericText

(***************************************************************************)
(* C5: the stored prices table of a pair holds exactly the parsed rows     *)
(* dated 2000-01-01 through 2019-12-31, both inclusive.                    *)
(***************************************************************************)
C5_Period2000To2019 ==
    \A p \in PairIds :
        PutDone(PricesKey(p)) =>
            StoredRows(PricesKey(p)) =
                {CoerceRow(r) : r \in {x \in ParsedRows(p) :
                                          20000101 <= x.date /\ x.date <= 20191231}}

\* a table is stored for a pair with a row of the last day of the period and
\* a row of the day after it
C5_Witness ==
    \E p \in PairIds :
        /\ PutDone(PricesKey(p))
        /\ \E s \in StoredRows(PricesKey(p)) : s.date = 20191231
        /\ \E r \in ParsedRows(p) : r.date = 20200101

(***************************************************************************)
(* C6: once get_stooq_prices_and_tickers has returned, no file without     *)
(* data is left under the directory.  (Fails: file.unlink() is commented   *)
(* out.)                                                                   *)
(***************************************************************************)
C6_NoDataFilesRemoved ==
    Returned => \A j \in 1..Len(fs[pair]) : TryExc(fs[pair][j]) \notin SkipExcs

(***************************************************************************)
(* C7: when the store loop has completed, the store holds the prices and   *)
(* tickers of the Japanese 'tse stocks' and of the five US asset classes.  *)
(* (Fails: markets holds the US asset classes only.)                       *)
(***************************************************************************)
C7_JapanAndUsStored ==
    pc = "end" =>
        /\ "stooq/jp/tse/stocks/prices" \in DOMAIN store
        /\ "stooq/jp/tse/stocks/tickers" \in DOMAIN store
        /\ \A p \in PairIds : {PricesKey(p), TickersKey(p)} \subseteq DOMAIN store

(***************************************************************************)
(* C8: the tickers of the series stored for a pair are the tickers that    *)
(* have a row in the prices table stored for it.  (Fails: the series is    *)
(* built before the rows outside 2000-2019 are dropped.)                   *)
(***************************************************************************)
C8_TickersMatchPrices ==
    \A p \in PairIds :
        PutDone(TickersKey(p)) =>
            (IF TickersKey(p) \in DOMAIN store THEN DOMAIN store[TickersKey(p)] ELSE {})
                = {r.ticker : r \in StoredRows(PricesKey(p))}

\* the table the store loop builds from all the files of pair p
FullTable(p) == StoreLoopTable(Coerce(concat(ReadFrames(fs[p], Len(fs[p])))))

(***************************************************************************)
(* C9: a pair's table is written only after every file of its directory    *)
(* has been visited and the whole table has been built: at the writes the  *)
(* loop over the files is exhausted, and what is stored is the table of    *)
(* all the files, never that of a prefix.                                  *)
(***************************************************************************)
C9_WriteAfterWholeTable ==
    /\ pc \in {"to_hdf_prices", "to_hdf_tickers"} =>
          /\ files = fs[pair]
          /\ i = Len(files) + 1
          /\ prices = FullTable(pair)
    /\ \A p \in PairIds :
          PricesKey(p) \in DOMAIN store => store[PricesKey(p)] = FullTable(p)

\* a table built from two files is stored
C9_Witness ==
    \E p \in PairIds :
        /\ PricesKey(p) \in DOMAIN store
        /\ Len(ReadFrames(fs[p], Len(fs[p]))) >= 2
        /\ Len(store[PricesKey(p)]) >= 2

(***************************************************************************)
(* C10: the store is opened, written and closed once per dataset, in that  *)
(* order, and never by two handles at once: at most one handle is open, an *)
(* open is followed by its put (or the raise of the put) and that by its   *)
(* close before the next open, and no key is opened twice.                 *)
(***************************************************************************)
C10_OpenPutClose ==
    /\ handles \in {0, 1}
    /\ (handles = 1) <=> (hdf # "idle")
    /\ \A n \in 1..Len(hdfTrace) :
          LET e == hdfTrace[n]
          IN  CASE e[1] = "open" ->
                       /\ n > 1 => hdfTrace[n - 1][1] = "close"
                       /\ \A m \in 1..Len(hdfTrace) :
                             (hdfTrace[m] = e) => m = n
                [] e[1] \in {"put", "raise"} ->
                       hdfTrace[n - 1] = <<"open", e[2]>>
                [] OTHER ->
                       /\ hdfTrace[n - 1][1] \in {"put", "raise"}
                       /\ hdfTrace[n - 1][2] = e[2]
    /\ (hdfTrace # <<>> /\ hdfTrace[Len(hdfTrace)][1] = "close") <=>
          (hdfTrace # <<>> /\ handles = 0)

\* a put has raised inside its block, the handle was closed, and the store
\* has been opened again
C10_Witness ==
    \E n \in 1..Len(hdfTrace) :
        /\ hdfTrace[n][1] = "raise"
        /\ n + 2 <= Len(hdfTrace)
        /\ hdfTrace[n + 1][1] = "close"
        /\ hdfTrace[n + 2][1] = "open"

\* the dict `tickers` after the first n files of a listing
RECURSIVE TickersOfFiles(_, _)
TickersOfFiles(listing, n) ==
    IF n = 0 THEN <<>>
    ELSE LET before == TickersOfFiles(listing, n - 1)
         IN  IF TryExc(listing[n]) = "none"
             THEN (read_csv(listing[n]).df[1].ticker :> StemName(listing[n])) @@ before
             ELSE before

\* what is stored under key k; the empty table when nothing is
StoredTable(k) == IF k \in DOMAIN store THEN store[k] ELSE <<>>

\* the last write of the store loop raised, and it was the write of the
\* tickers of the current pair
TickersWriteFailed ==
    /\ pc = "raised"
    /\ error.at = "put"
    /\ hdfTrace # <<>>
    /\ \E n \in 1..Len(hdfTrace) : hdfTrace[n] = <<"raise", TickersKey(pair)>>

(***************************************************************************)
(* C11: nothing written is rolled back.  Whatever happens later (the call  *)
(* for a later pair raises, a later write raises), the prices and tickers  *)
(* tables written for a pair stay stored as they were written; when the    *)
(* write of a pair's tickers raises, the prices just written for that pair *)
(* stay stored.                                                            *)
(***************************************************************************)
C11_NoRollback ==
    /\ \A p \in PairIds :
          /\ PutDone(PricesKey(p)) => StoredTable(PricesKey(p)) = FullTable(p)
          /\ PutDone(TickersKey(p)) =>
                StoredTable(TickersKey(p)) = TickersOfFiles(fs[p], Len(fs[p]))
    /\ TickersWriteFailed =>
          /\ PutDone(PricesKey(pair))
          /\ StoredTable(PricesKey(pair)) = FullTable(pair)

\* the write of a pair's tickers has raised after the pair's prices, a table
\* with rows, were written
C11_Witness ==
    /\ TickersWriteFailed
    /\ PricesKey(pair) \in DOMAIN store
    /\ store[PricesKey(pair)] # <<>>

\* the call for a later pair has raised after the tables of an earlier pair
\* were written
C11_WitnessLaterPairRaises ==
    /\ pc = "raised"
    /\ error.at = FnName
    /\ pair >= 2
    /\ \E p \in 1..(pair - 1) : {PricesKey(p), TickersKey(p)} \subseteq DOMAIN store

(***************************************************************************)
(* C12: a write under one key adds or replaces the table of that key only: *)
(* in every step every other key of the store, written earlier in the run  *)
(* or there before it, keeps its table, and no key but the written one is  *)
(* new.                                                                    *)
(***************************************************************************)
C12_OnlyKeyWritten ==
    [][ /\ \A k \in DOMAIN store :
              /\ k \in DOMAIN store'
              /\ (store'[k] # store[k]) => (pc \in WritePcs /\ k = PendingKey)
        /\ \A k \in DOMAIN store' \ DOMAIN store : pc \in WritePcs /\ k = PendingKey
      ]_vars

\* a table of an earlier run is still stored after another one of that run
\* was replaced and the tables of the store loop were added
C12_Witness ==
    /\ "stooq/jp/tse/stocks/prices" \in DOMAIN store
    /\ store["stooq/jp/tse/stocks/prices"] = AssetsBefore["stooq/jp/tse/stocks/prices"]
    /\ PutDone("sp500/fred")
    /\ store["sp500/fred"] # AssetsBefore["sp500/fred"]
    /\ \E p \in PairIds : PricesKey(p) \in DOMAIN store

\* the keys the loop over markets writes, as the text of the keys
ExpectedPricesKeys ==
    << "stooq/us/nasdaq/etfs/prices", "stooq/us/nasdaq/stocks/prices",
       "stooq/us/nyse/etfs/prices", "stooq/us/nyse/stocks/prices",
       "stooq/us/nysemkt/stocks/prices" >>

ExpectedTickersKeys ==
    << "stooq/us/nasdaq/etfs/tickers", "stooq/us/nasdaq/stocks/tickers",
       "stooq/us/nyse/etfs/tickers", "stooq/us/nyse/stocks/tickers",
       "stooq/us/nysemkt/stocks/tickers" >>

(***************************************************************************)
(* C13: the key of a pair is 'stooq/<market>/<asset class with every blank *)
(* replaced by a slash>/' followed by prices or tickers; the keys of the   *)
(* configured pairs are all different, and no key is written twice in a    *)
(* run of the loop, so that no pair's table replaces that of another.      *)
(***************************************************************************)
C13_KeysInjective ==
    /\ PricesKeys = ExpectedPricesKeys
    /\ TickersKeys = ExpectedTickersKeys
    /\ \A p \in PairIds : \A q \in PairIds :
          /\ PricesKey(p) # TickersKey(q)
          /\ p # q => (PricesKey(p) # PricesKey(q) /\ TickersKey(p) # TickersKey(q))
    /\ \A m \in 1..Len(hdfTrace) : \A n \in (m + 1)..Len(hdfTrace) :
          (hdfTrace[m][1] = "put" /\ hdfTrace[n][1] = "put")
              => hdfTrace[m][2] # hdfTrace[n][2]

\* the loop has ended with the tables of all pairs written, two of them
\* different tables
C13_Witness ==
    /\ pc = "end"
    /\ \A p \in PairIds : PutDone(PricesKey(p)) /\ PutDone(TickersKey(p))
    /\ \E p \in PairIds : \E q \in PairIds :
          /\ {PricesKey(p), PricesKey(q)} \subseteq DOMAIN store
          /\ store[PricesKey(p)] # store[PricesKey(q)]

(***************************************************************************)
(* C14: one bounded pass over the files, no retry: within a call read_csv  *)
(* is called for the files of the listing in order, once each, also for a  *)
(* file that fails; every step of the loop consumes one file, so that the  *)
(* loop ends after at most as many steps as there are files; when the call *)
(* has returned every file was attempted once.                             *)
(***************************************************************************)
C14_SinglePass ==
    /\ [](pair >= 1 =>
            /\ Len(reads) <= Len(files)
            /\ \A k \in 1..Len(reads) : reads[k] = k
            /\ pc = "parse" => Len(reads) = i - 1
            /\ Returned => Len(reads) = Len(files))
    /\ [][(pc = "parse" /\ pc' = "parse") => reads' = Append(reads, Len(reads) + 1)]_vars

\* the call has returned for a directory of two files whose first file failed
C14_Witness ==
    /\ pc = "post"
    /\ Len(files) = 2
    /\ TryExc(files[1]) \in SkipExcs
    /\ reads = <<1, 2>>

\* the number of times row r is in table t
RECURSIVE Count(_, _)
Count(t, r) ==
    IF t = <<>> THEN 0
    ELSE Count(SubSeq(t, 1, Len(t) - 1), r) + (IF t[Len(t)] = r THEN 1 ELSE 0)

\* the rows of pair p that the slice of the period keeps, as the table holds them
RowsInPeriod(p) == {CoerceRow(r) : r \in {x \in ParsedRows(p) : InPeriod(x.date)}}

(***************************************************************************)
(* C20: the removal of duplicates drops exact duplicates only: every row   *)
(* of the period, however often the files hold it, is stored exactly once, *)
(* and so two rows that differ in a column are both stored, also when they *)
(* have ticker and date in common.                                         *)
(***************************************************************************)
C20_ExactDuplicatesOnly ==
    \A p \in PairIds :
        PutDone(PricesKey(p)) =>
            /\ \A r \in RowsInPeriod(p) : Count(StoredTable(PricesKey(p)), r) = 1
            /\ Len(StoredTable(PricesKey(p))) = Cardinality(RowsInPeriod(p))

\* two files held the same row, and the stored table holds it once
C20_Witness ==
    \E p \in PairIds :
        /\ PutDone(PricesKey(p))
        /\ Len(StoredTable(PricesKey(p))) = 1
        /\ LET fr == ReadFrames(fs[p], Len(fs[p]))
           IN  /\ Len(fr) = 2
               /\ fr[1] = fr[2]
               /\ Len(fr[1]) = 1

(***************************************************************************)
(* C15: a call of download_price_data for a market whose archive           *)
(* stooq/.downloaded/<freq>_<market>_txt.zip is not there raises the       *)
(* FileNotFoundError of download_price_data itself ('You must download the *)
(* data first') in its first step, and no directory or file has been made  *)
(* by then: the step leaves the disk as it was.                            *)
(***************************************************************************)
C15_MissingArchiveRaisesFirst ==
    [][ (/\ pc = "dl_for"
         /\ dl < Len(DownloadMarkets)
         /\ DataName(DefaultFreq, DownloadMarkets[dl + 1]) \notin DOMAIN archives)
        => (/\ pc' = "raised"
            /\ error' = [exc |-> "FileNotFoundError", at |-> "download_price_data"]
            /\ disk' = disk)
      ]_vars

\* the archive of the first market was extracted, the call for the second
\* market has raised over its missing archive
C15_Witness ==
    /\ pc = "raised"
    /\ error = [exc |-> "FileNotFoundError", at |-> "download_price_data"]
    /\ dl = 2
    /\ DataName(DefaultFreq, DownloadMarkets[2]) \notin DOMAIN archives
    /\ disk # {}

(***************************************************************************)
(* C16: the table stored under sp500/stooq holds the rows of ^spx_d.csv of *)
(* the years 1950 through 2020, all of them and no other.  (Fails: the     *)
(* slice is .loc['1950':'2019'], which leaves out the rows of 2020.)       *)
(***************************************************************************)
C16_Sp500From1950To2020 ==
    PutDone("sp500/stooq") =>
        Range(StoredTable("sp500/stooq")) =
            {r \in Range(inputs.spx) : 1950 <= YearOf(r.date) /\ YearOf(r.date) <= 2020}

\* the position of a cell in the document
CellIndex(name) == CHOOSE k \in 1..Len(doc) : doc[k] = name

\* what the run stores under key k when the exchange downloads play no part
StoredWithoutExchanges(k) ==
    CASE k = "sp500/stooq" -> LocYears(inputs.spx, SpxFirstYear, SpxLastYear)
      [] k = "us_equities/stocks" -> set_index(MetaFrame(inputs.meta), "ticker")
      [] OTHER -> CellFrame[CHOOSE c \in DOMAIN CellFrame : WithKey[c] = k]

(***************************************************************************)
(* C17: with the cells run in document order, what is stored under         *)
(* us_equities/stocks is the content of us_equities_meta_data.csv with     *)
(* ticker as its index, and the put of it does not fail over the table of  *)
(* the exchange downloads; no stored table depends on that table or on its *)
(* market-cap conversion.                                                  *)
(***************************************************************************)
C17_MetaDataStored ==
    /\ PutDone("us_equities/stocks") =>
          /\ "us_equities/stocks" \in DOMAIN store
          /\ store["us_equities/stocks"] = set_index(MetaFrame(inputs.meta), "ticker")
    /\ ~(pc = "raised" /\ doc[cell] = "us_equities_stocks" /\ error.exc = "KeyError")
    /\ \A k \in DOMAIN store : store[k] = StoredWithoutExchanges(k)

\* the table of the exchanges was built and its market caps were converted,
\* and after that the table of the csv file was stored
C17_Witness ==
    /\ PutDone("us_equities/stocks")
    /\ inputs.exchanges.ok
    /\ mcap.defined
    /\ \E k \in 1..Len(mcap.rows) : mcap.rows[k].marketcap.kind = "num"
    /\ store["us_equities/stocks"].rows = inputs.meta

\* the text c is '$<n>' followed by the unit u, n a number
DollarsWithUnit(c, u) ==
    /\ c.kind = "str"
    /\ Len(c.s) >= 3
    /\ c.s[1] = "$"
    /\ c.s[Len(c.s)] = u
    /\ IsNumber(SubSeq(c.s, 2, Len(c.s) - 1))

\* the market cap the downloads gave for a symbol (that of its first row)
DownloadedMcap(symbol) ==
    LET rows == inputs.exchanges.rows
        first == CHOOSE j \in 1..Len(rows) :
                     /\ rows[j].symbol = symbol
                     /\ \A h \in 1..(j - 1) : rows[h].symbol # symbol
    IN  rows[first].marketcap

\* the market cap claimed for a downloaded value
ClaimedMcap(c, got) ==
    /\ DollarsWithUnit(c, "M") => got = Num(NumberOf(SubSeq(c.s, 2, Len(c.s) - 1)) * 1000000)
    /\ DollarsWithUnit(c, "B") => got = Num(NumberOf(SubSeq(c.s, 2, Len(c.s) - 1)) * 1000000000)
    /\ (c.kind = "nan" \/ (c.kind = "str" /\ c.s[Len(c.s)] \notin {"M", "B"})) => got = NaNCell

\* the cell named has been run, and df is the table of the exchanges (the
\* cells up to it did not raise)
CellRan(name) ==
    /\ cell > CellIndex(name) \/ pc = "end"
    /\ df.name = "exchanges"

(***************************************************************************)
(* C18: the conversion of the market caps: '$<n>M' becomes n x 1,000,000   *)
(* and '$<n>B' becomes n x 1,000,000,000, every row multiplied by the      *)
(* factor of its own unit and by no other; a row without market cap, or    *)
(* whose text ends in neither M nor B, ends with a missing market cap.     *)
(* Checked on mcap after the conversion cell and on df after the cell that *)
(* assigns the column.                                                     *)
(***************************************************************************)
C18_McapConversion ==
    /\ CellRan("mcap_convert") =>
          \A k \in 1..Len(mcap.rows) :
              LET c == DownloadedMcap(mcap.rows[k].symbol)
              IN  /\ DollarsWithUnit(c, "M") \/ DollarsWithUnit(c, "B")
                  /\ ClaimedMcap(c, mcap.rows[k].marketcap)
    /\ CellRan("df_marketcap") =>
          /\ Len(df.rows) = Cardinality({r.symbol : r \in Range(inputs.exchanges.rows)})
          /\ \A k \in 1..Len(df.rows) :
                ClaimedMcap(DownloadedMcap(df.rows[k].symbol), df.rows[k].marketcap)

\* after the assignment df holds a row of millions or billions made a number
\* and a row whose text had no unit, now without market cap
C18_Witness ==
    /\ CellRan("df_marketcap")
    /\ \E a \in 1..Len(df.rows) : \E b \in 1..Len(df.rows) :
          /\ df.rows[a].marketcap.kind = "num"
          /\ df.rows[a].marketcap.v >= 1000000
          /\ df.rows[b].marketcap = NaNCell
          /\ DownloadedMcap(df.rows[b].symbol).kind = "str"

\* the directory of the call holds files, all of them with rows
AllFilesHaveRows ==
    /\ pair >= 1
    /\ files # <<>>
    /\ \A k \in 1..Len(files) : files[k].content = "text" /\ files[k].lines # <<>>

(***************************************************************************)
(* C19: for the frequencies '5 min' and 'hourly' the function returns a    *)
(* table indexed by ticker and date_time, for every other frequency one    *)
(* indexed by ticker and date; its other columns are open, high, low,      *)
(* close and volume.  (Fails: for '5 min' and 'hourly' usecols holds the   *)
(* list ['date', 'time'] as an element, read_csv raises ValueError for the *)
(* first file, and the function returns nothing.)                          *)
(***************************************************************************)
C19_IndexByFrequency ==
    /\ pc = "post" =>
          \A r \in Range(prices) : DOMAIN r = {"ticker", date_label(frequency)} \cup Cols
    /\ AllFilesHaveRows => pc # "raised"

\* row a does not come after row b: its ticker is the earlier one, or the
\* tickers are the same and its date is not the later one
NotAfter(a, b) ==
    \/ TickerRank(a.ticker) < TickerRank(b.ticker)
    \/ TickerRank(a.ticker) = TickerRank(b.ticker) /\ a.date <= b.date

(***************************************************************************)
(* C21: a stored prices table is ordered by ticker and, within a ticker,   *)
(* by date: of two consecutive rows the first does not come after the      *)
(* second, in whatever order the files were listed.                        *)
(***************************************************************************)
C21_OrderedByTickerDate ==
    \A p \in PairIds :
        PricesKey(p) \in DOMAIN store =>
            LET t == store[PricesKey(p)]
            IN  \A k \in 1..(Len(t) - 1) : NotAfter(t[k], t[k + 1])

\* a table of two rows or more is stored whose rows came out of the files
\* in another order
C21_Witness ==
    \E p \in PairIds :
        /\ PricesKey(p) \in DOMAIN store
        /\ Len(store[PricesKey(p)]) >= 2
        /\ LET read == concat(ReadFrames(fs[p], Len(fs[p])))
           IN  \E k \in 1..(Len(read) - 1) :
                   /\ ~NotAfter(read[k], read[k + 1])
                   /\ InPeriod(read[k].date)
                   /\ InPeriod(read[k + 1].date)

\* the lines of the first n files of a listing whose try block ended without
\* an exception, in the order of the listing
RECURSIVE LinesOfParsed(_, _)
LinesOfParsed(listing, n) ==
    IF n = 0 THEN <<>>
    ELSE LinesOfParsed(listing, n - 1)
             \o (IF TryExc(listing[n]) = "none" THEN listing[n].lines ELSE <<>>)

(***************************************************************************)
(* C22: the table get_stooq_prices_and_tickers returns holds the rows of   *)
(* the files parsed without error, each as often as the files hold it (the *)
(* cells as to_numeric leaves them), and no other row: a file skipped for  *)
(* EmptyDataError or IndexError adds no row, also the file without rows    *)
(* whose table was appended to the list before IndexError was raised.      *)
(***************************************************************************)
C22_RowsOfParsedFiles ==
    pc = "post" =>
        LET parsed == Coerce(LinesOfParsed(files, Len(files)))
        IN  /\ Len(prices) = Len(parsed)
            /\ \A r \in Range(prices) \cup Range(parsed) :
                   Count(prices, r) = Count(parsed, r)

\* the call has returned the rows of one file; the other file had no rows,
\* its table is in the list, and it was printed as missing
C22_Witness ==
    /\ pc = "post"
    /\ Len(files) = 2
    /\ \E a \in 1..2 : \E b \in 1..2 :
          /\ TryExc(files[a]) = "IndexError"
          /\ read_csv(files[a]).exc = "none"
          /\ TryExc(files[b]) = "none"
          /\ Len(prices) = Len(files[b].lines)
    /\ Len(frames) = 2
    /\ Len(out) >= 1
    /\ Len(prices) >= 1

====
